---- MODULE Spec2Model ----
(***************************************************************************)
(* analyzeSalesData of the sales-bonus repository, in its two source       *)
(* variants:                                                               *)
(*   "main"  src/src/main.js        (Map-based, lenient on unknown keys)   *)
(*   "part"  src/unnamed/part_000   (object-based, receipts counted)       *)
(*                                                                         *)
(* Money.  Prices of the input (sale_price, purchase_price, total_amount)  *)
(* are whole cents.  Running totals (revenue, profit) are kept in units    *)
(* of 1/100 cent, so that a percent discount is exact; a bonus, being a    *)
(* percentage of a profit, is in units of 1/10000 cent.  toFixed(2) turns  *)
(* either back into whole cents, rounding half away from zero.  IEEE       *)
(* doubles are modelled as exact numbers.                                  *)
(*                                                                         *)
(* Names of sellers and products are carried through by the code without   *)
(* being read; they are left out.  The input is well-shaped: it has the    *)
(* collections checkData of main.js asks for, and the two default          *)
(* strategies are passed as options.  Seller ids and skus are strings that *)
(* are not array indices, so that the object of part_000 lists its keys in *)
(* insertion order, as the Map of main.js does.                            *)
(***************************************************************************)
EXTENDS Integers, Sequences, FiniteSets, TLC

VARIABLES
    variant,      \* which source variant runs: "main" or "part"
    data,         \* the input: [sellers, products, purchase_records]
    pc,           \* "start", "records", "items", "done", "error"
    sellerStats,  \* the accumulators, in insertion order (sellerMap / sellersStats)
    ri,           \* index of the purchase record the outer forEach is at
    ii,           \* index of the line item the inner forEach is at
    out           \* the returned array (empty until pc = "done")

vars == <<variant, data, pc, sellerStats, ri, ii, out>>

(***************************************************************************)
(* Bounds of the input domain.                                             *)
(***************************************************************************)
MaxRecords == 2     \* purchase records of a free-form input
MaxItems == 2       \* line items of a free-form input, all records together
MaxSellers == 5     \* sellers of a ranking input
MaxSkus == 11       \* products of a catalogue input

TopN == 10

(***************************************************************************)
(* Input domain.                                                           *)
(***************************************************************************)
Variants == {"main", "part"}

SellerIds == <<"s1", "s2", "s3", "s4", "s5", "s6", "s7", "s8">>
UnknownSeller == "sX"

Min(a, b) == IF a <= b THEN a ELSE b

SellerList(n) == [i \in 1..Min(n, Len(SellerIds)) |-> [id |-> SellerIds[i]]]

Catalog ==
    << [sku |-> "P1", purchase_price |-> 1000],
       [sku |-> "P2", purchase_price |-> 500] >>

\* 2 x 20.00, no discount: revenue 40.00, cost 20.00, profit 20.00
ItemA == [sku |-> "P1", discount |-> 0, sale_price |-> 2000, quantity |-> 2]
\* 3 x 1.99 at 15% off: revenue 5.0745, cost 15.00, profit -9.9255
ItemB == [sku |-> "P2", discount |-> 15, sale_price |-> 199, quantity |-> 3]
\* a line item whose sku is in no product card
ItemX == [sku |-> "PX", discount |-> 0, sale_price |-> 2000, quantity |-> 1]

Items == {ItemA, ItemB, ItemX}
TotalAmounts == {0, 4000}

RECURSIVE SeqSum(_)
SeqSum(q) == IF q = <<>> THEN 0 ELSE Head(q) + SeqSum(Tail(q))

\* the purchase records with seller ids and total amounts heads[r], of lens[r]
\* line items each, taken in turn from flat
BuildRecords(heads, lens, flat) ==
    [r \in 1..Len(heads) |->
        [seller_id |-> heads[r][1],
         total_amount |-> heads[r][2],
         items |-> SubSeq(flat, SeqSum(SubSeq(lens, 1, r - 1)) + 1,
                                SeqSum(SubSeq(lens, 1, r)))]]

\* Free-form inputs: one or two sellers, at most MaxRecords purchase records of
\* known and unknown sellers, with at most MaxItems line items in all.
FreeInput(d) ==
    \E n \in {1, 2}, m \in 0..MaxRecords :
        \E lens \in [1..m -> 0..MaxItems] :
            /\ SeqSum(lens) <= MaxItems
            /\ \E heads \in [1..m -> ({SellerIds[i] : i \in 1..n} \cup {UnknownSeller})
                                      \X TotalAmounts],
                  flat \in [1..SeqSum(lens) -> Items] :
                   d = [sellers |-> SellerList(n), products |-> Catalog,
                        purchase_records |-> BuildRecords(heads, lens, flat)]

\* Ranking inputs: up to MaxSellers sellers, the first possibly listed twice,
\* each with no purchase record or one record out of RankChoices.
RankChoices == {<<>>, <<ItemA>>, <<ItemB>>, <<ItemA, ItemA>>}

RECURSIVE RankRecords(_, _)
RankRecords(f, i) ==
    IF i > Len(f) THEN <<>>
    ELSE (IF f[i] = <<>> THEN <<>>
          ELSE << [seller_id |-> SellerIds[i], total_amount |-> 4000, items |-> f[i]] >>)
         \o RankRecords(f, i + 1)

RankInput(d) ==
    \E n \in 0..Min(MaxSellers, Len(SellerIds)) :
        \E f \in [1..n -> RankChoices],
           dup \in (IF n = 0 THEN {<<>>} ELSE {<<>>, <<[id |-> SellerIds[1]]>>}) :
            d = [sellers |-> SellerList(n) \o dup, products |-> Catalog,
                 purchase_records |-> RankRecords(f, 1)]

\* Catalogue inputs: one seller and one purchase record that sells every one of
\* up to MaxSkus products, one or two units of each at 1.00.
Skus == <<"P1", "P2", "P3", "P4", "P5", "P6", "P7", "P8", "P9", "P10", "P11", "P12",
          "P13", "P14">>

CatalogueInput(d) ==
    \E n \in 1..Min(MaxSkus, Len(Skus)) :
        \E q \in [1..n -> {1, 2}] :
            d = [sellers |-> SellerList(1),
                 products |-> [i \in 1..n |-> [sku |-> Skus[i], purchase_price |-> 50]],
                 purchase_records |->
                    << [seller_id |-> SellerIds[1], total_amount |-> 4000,
                        items |-> [i \in 1..n |->
                                      [sku |-> Skus[i], discount |-> 0,
                                       sale_price |-> 100, quantity |-> q[i]]]] >>]

(***************************************************************************)
(* Strategies.                                                             *)
(***************************************************************************)
\* main.js: sale_price * quantity * (1 - discount / 100)
MainSimpleRevenue(purchase) ==
    purchase.sale_price * purchase.quantity * (100 - purchase.discount)

\* part_000: (sale_price - sale_price * (discount / 100)) * quantity
PartSimpleRevenue(purchase) ==
    LET discountAmount == purchase.sale_price * purchase.discount
        finalPrice == purchase.sale_price * 100 - discountAmount
    IN  finalPrice * purchase.quantity

\* main.js with the last-place test moved to the front
MainBonusLastFirst(index, total) ==
    IF index = total - 1 THEN 0
    ELSE IF index = 0 THEN 15
    ELSE IF index = 1 \/ index = 2 THEN 10
    ELSE 5

\* main.js: the bonus percentage of a rank (index is 0-based)
MainBonusByProfit(index, total) ==
    IF index = 0 THEN 15
    ELSE IF index = 1 \/ index = 2 THEN 10
    ELSE IF index = total - 1 THEN 0
    ELSE 5

\* part_000: the bonus amount of a rank
PartBonusByProfit(index, total, seller) ==
    IF index = 0 THEN seller.profit * 15
    ELSE IF index = 1 \/ index = 2 THEN seller.profit * 10
    ELSE IF index = total - 1 THEN 0
    ELSE seller.profit * 5

\* Number(x.toFixed(2)) of an amount held in units of 1/scale cent
ToFixed2(x, scale) ==
    IF x >= 0 THEN (2 * x + scale) \div (2 * scale)
    ELSE -((2 * (-x) + scale) \div (2 * scale))

(***************************************************************************)
(* Indexes and accumulators.                                               *)
(***************************************************************************)
\* position of the accumulator of seller id, 0 when there is none
StatIndex(stats, id) ==
    IF \E i \in 1..Len(stats) : stats[i].seller_id = id
    THEN CHOOSE i \in 1..Len(stats) : stats[i].seller_id = id
    ELSE 0

\* productMap / productIndex: the last card of a sku wins; 0 when there is none
ProductIndex(products, sku) ==
    LET hits == {i \in 1..Len(products) : products[i].sku = sku}
    IN  IF hits = {} THEN 0 ELSE CHOOSE i \in hits : \A j \in hits : j <= i

NewStat(id) ==
    [seller_id |-> id, revenue |-> 0, profit |-> 0, sales_count |-> 0,
     products_sold |-> <<>>]

\* an array of accumulators instead of a keyed collection: a known key is added again
PutStatAppend(stats, stat) == Append(stats, stat)

\* sellerMap.set(id, stat) / sellersStats[id] = stat: a known key keeps its place
PutStat(stats, stat) ==
    LET k == StatIndex(stats, stat.seller_id)
    IN  IF k = 0 THEN Append(stats, stat) ELSE [stats EXCEPT ![k] = stat]

RECURSIVE InitStats(_, _)
InitStats(sellers, stats) ==
    IF sellers = <<>> THEN stats
    ELSE InitStats(Tail(sellers), PutStat(stats, NewStat(Head(sellers).id)))

\* position of the entry of sku in a per-product collection, 0 when there is none
EntrySku(e) == IF "sku" \in DOMAIN e THEN e.sku ELSE e.product_id

EntryIndex(entries, sku) ==
    IF \E i \in 1..Len(entries) : EntrySku(entries[i]) = sku
    THEN CHOOSE i \in 1..Len(entries) : EntrySku(entries[i]) = sku
    ELSE 0

(***************************************************************************)
(* The aggregation steps.                                                  *)
(***************************************************************************)
\* main.js, the body of the inner forEach for a resolved product
MainItemStep(stat, item, product) ==
    LET revenue == MainSimpleRevenue(item)
        cost == product.purchase_price * item.quantity * 100
        profit == revenue - cost
        e == EntryIndex(stat.products_sold, product.sku)
    IN  [stat EXCEPT
            !.revenue = @ + revenue,
            !.profit = @ + profit,
            !.sales_count = @ + item.quantity,
            !.products_sold =
                IF e # 0
                THEN [@ EXCEPT ![e] = [@ EXCEPT !.quantity = @ + item.quantity,
                                                 !.revenue = @ + revenue]]
                ELSE Append(@, [product_id |-> product.sku,
                                quantity |-> item.quantity,
                                revenue |-> revenue])]

\* part_000, the head of the outer forEach
PartRecordStep(stat, record) ==
    [stat EXCEPT !.sales_count = @ + 1,
                 !.revenue = @ + record.total_amount * 100]

\* part_000, the body of the inner forEach for a resolved product
PartItemStep(stat, item, product) ==
    LET itemCost == product.purchase_price * item.quantity * 100
        itemRevenue == PartSimpleRevenue(item)
        itemProfit == itemRevenue - itemCost
        e == EntryIndex(stat.products_sold, item.sku)
        sold == IF e = 0 \/ stat.products_sold[e].quantity = 0
                THEN (IF e = 0
                      THEN Append(stat.products_sold, [sku |-> item.sku, quantity |-> 0])
                      ELSE stat.products_sold)
                ELSE stat.products_sold
        f == EntryIndex(sold, item.sku)
    IN  [stat EXCEPT
            !.profit = @ + itemProfit,
            !.products_sold = [sold EXCEPT ![f] = [@ EXCEPT !.quantity = @ + item.quantity]]]

(***************************************************************************)
(* Ranking.                                                                *)
(***************************************************************************)
\* Array.prototype.sort with comparator (a, b) => key(b) - key(a): stable,
\* descending.  keys[i] is the key of seq[i].
SortDesc(seq, keys) ==
    LET n == Len(seq)
        Place(i) == Cardinality({j \in 1..n : keys[j] > keys[i]})
                    + Cardinality({j \in 1..(i - 1) : keys[j] = keys[i]}) + 1
    IN  [p \in 1..n |-> seq[CHOOSE i \in 1..n : Place(i) = p]]

\* .slice(0, n)
Slice(seq, n) == SubSeq(seq, 1, Min(n, Len(seq)))

\* the comparator turned around: (a, b) => a.profit - b.profit
SortSellersAscending(stats) ==
    LET n == Len(stats)
        Place(i) == Cardinality({j \in 1..n : stats[j].profit < stats[i].profit})
                    + Cardinality({j \in 1..(i - 1) : stats[j].profit = stats[i].profit}) + 1
    IN  [p \in 1..n |-> stats[CHOOSE i \in 1..n : Place(i) = p]]

\* sort of the sellers by profit, descending
SortSellers(stats) == SortDesc(stats, [i \in 1..Len(stats) |-> stats[i].profit])

\* main.js: the top products of one seller
MainTopProducts(sold) ==
    Slice(SortDesc(sold, [i \in 1..Len(sold) |-> sold[i].revenue]), TopN)

\* part_000: the top products of one seller
PartTopProducts(sold) ==
    Slice(SortDesc(sold, [i \in 1..Len(sold) |-> sold[i].quantity]), TopN)

\* main.js: the bonus of the seller at index and the entry returned for it
MainResult(seller, index, total) ==
    [seller_id |-> seller.seller_id,
     revenue |-> ToFixed2(seller.revenue, 100),
     profit |-> ToFixed2(seller.profit, 100),
     bonus |-> ToFixed2(seller.profit * MainBonusByProfit(index, total), 10000),
     sales_count |-> seller.sales_count,
     top_products |->
        [k \in 1..Len(seller.products_sold) |->
            [product_id |-> seller.products_sold[k].product_id,
             quantity |-> seller.products_sold[k].quantity,
             revenue |-> ToFixed2(seller.products_sold[k].revenue, 100)]]]

\* part_000: the bonus and the top products of the seller at index and the entry
\* returned for it
PartResult(seller, index, total) ==
    [seller_id |-> seller.seller_id,
     revenue |-> ToFixed2(seller.revenue, 100),
     profit |-> ToFixed2(seller.profit, 100),
     sales_count |-> seller.sales_count,
     top_products |-> PartTopProducts(seller.products_sold),
     bonus |-> ToFixed2(PartBonusByProfit(index, total, seller), 10000)]

\* main.js ranking only the sellers who sold something
MainRankActive(stats) ==
    CHOOSE result \in
        { [i \in 1..Len(sellersArray) |->
              MainResult(sellersArray[i], i - 1, Len(sellersArray))] :
            sellersArray \in
                { SortSellers(
                      [i \in 1..Len(active) |->
                          [active[i] EXCEPT !.products_sold = MainTopProducts(@)]]) :
                  active \in {SelectSeq(stats, LAMBDA st : st.sales_count > 0)} } } :
        TRUE

\* main.js, from the conversion of the Map to the returned array; sellersArray is
\* the array after the sort
MainRank(stats) ==
    CHOOSE result \in
        { [i \in 1..Len(sellersArray) |->
              MainResult(sellersArray[i], i - 1, Len(sellersArray))] :
            sellersArray \in
                { SortSellers(
                      [i \in 1..Len(stats) |->
                          [stats[i] EXCEPT !.products_sold = MainTopProducts(@)]]) } } :
        TRUE

\* part_000, from the sort of the sellers to the returned array; sortedSellers is
\* the array after the sort
PartRank(stats) ==
    CHOOSE result \in
        { [i \in 1..Len(sortedSellers) |->
              PartResult(sortedSellers[i], i - 1, Len(sortedSellers))] :
            sortedSellers \in {SortSellers(stats)} } :
        TRUE

(***************************************************************************)
(* The state machine.                                                      *)
(***************************************************************************)
Records == data.purchase_records
CurRecord == Records[ri]
CurStat == StatIndex(sellerStats, CurRecord.seller_id)

Init ==
    /\ variant \in Variants
    /\ (FreeInput(data) \/ RankInput(data) \/ CatalogueInput(data))
    /\ pc = "start"
    /\ sellerStats = <<>>
    /\ ri = 1
    /\ ii = 1
    /\ out = <<>>

\* the validation of the input and the creation of the accumulators; part_000
\* throws on an input without purchase records
Start ==
    /\ pc = "start"
    /\ IF variant = "part" /\ Len(Records) = 0
       THEN /\ pc' = "error"
            /\ UNCHANGED sellerStats
       ELSE /\ pc' = "records"
            /\ sellerStats' = InitStats(data.sellers, <<>>)
    /\ UNCHANGED <<variant, data, ri, ii, out>>

\* the outer forEach reaches a purchase record: main.js skips the record of an
\* unknown seller, part_000 throws a TypeError on its missing accumulator
BeginRecord ==
    /\ pc = "records"
    /\ ri <= Len(Records)
    /\ IF variant = "main"
       THEN /\ IF CurStat # 0
               THEN pc' = "items" /\ ri' = ri
               ELSE pc' = "records" /\ ri' = ri + 1
            /\ UNCHANGED sellerStats
       ELSE IF CurStat # 0
            THEN /\ sellerStats' =
                        [sellerStats EXCEPT ![CurStat] = PartRecordStep(@, CurRecord)]
                 /\ pc' = "items"
                 /\ ri' = ri
            ELSE /\ pc' = "error"
                 /\ UNCHANGED <<sellerStats, ri>>
    /\ ii' = 1
    /\ UNCHANGED <<variant, data, out>>

\* one accumulator object shared by all sellers: every accumulator takes the step
ProcessItemShared ==
    /\ pc = "items"
    /\ ii <= Len(CurRecord.items)
    /\ LET item == CurRecord.items[ii]
           p == ProductIndex(data.products, item.sku)
       IN  IF p # 0
           THEN /\ sellerStats' =
                      [k \in 1..Len(sellerStats) |->
                          IF variant = "main"
                          THEN MainItemStep(sellerStats[k], item, data.products[p])
                          ELSE PartItemStep(sellerStats[k], item, data.products[p])]
                /\ ii' = ii + 1
                /\ pc' = "items"
           ELSE IF variant = "main"
                THEN /\ ii' = ii + 1
                     /\ pc' = "items"
                     /\ UNCHANGED sellerStats
                ELSE /\ pc' = "error"
                     /\ UNCHANGED <<sellerStats, ii>>
    /\ UNCHANGED <<variant, data, ri, out>>

\* the inner forEach handles one line item: main.js skips an unknown sku,
\* part_000 throws a TypeError on the missing product
ProcessItem ==
    /\ pc = "items"
    /\ ii <= Len(CurRecord.items)
    /\ LET item == CurRecord.items[ii]
           p == ProductIndex(data.products, item.sku)
       IN  IF p # 0
           THEN /\ sellerStats' =
                      [sellerStats EXCEPT ![CurStat] =
                          IF variant = "main"
                          THEN MainItemStep(@, item, data.products[p])
                          ELSE PartItemStep(@, item, data.products[p])]
                /\ ii' = ii + 1
                /\ pc' = "items"
           ELSE IF variant = "main"
                THEN /\ ii' = ii + 1
                     /\ pc' = "items"
                     /\ UNCHANGED sellerStats
                ELSE /\ pc' = "error"
                     /\ UNCHANGED <<sellerStats, ii>>
    /\ UNCHANGED <<variant, data, ri, out>>

\* the inner forEach is through the items of the record
EndRecord ==
    /\ pc = "items"
    /\ ii > Len(CurRecord.items)
    /\ pc' = "records"
    /\ ri' = ri + 1
    /\ ii' = 1
    /\ UNCHANGED <<variant, data, sellerStats, out>>

\* the ranking, the bonuses, the top products and the returned array
Finish ==
    /\ pc = "records"
    /\ ri > Len(Records)
    /\ out' = IF variant = "main" THEN MainRank(sellerStats) ELSE PartRank(sellerStats)
    /\ pc' = "done"
    /\ UNCHANGED <<variant, data, sellerStats, ri, ii>>

Next == Start \/ BeginRecord \/ ProcessItem \/ EndRecord \/ Finish

Spec == Init /\ [][Next]_vars

(***************************************************************************)
(* Vocabulary of the properties.                                           *)
(***************************************************************************)
Abs(x) == IF x >= 0 THEN x ELSE -x

RECURSIVE SumOver(_, _)
SumOver(f, S) ==
    IF S = {} THEN 0
    ELSE LET x == CHOOSE y \in S : TRUE IN f[x] + SumOver(f, S \ {x})

SellerIdSet == {data.sellers[i].id : i \in 1..Len(data.sellers)}
KnownSku(sku) == \E i \in 1..Len(data.products) : data.products[i].sku = sku

\* the positions <<record, item>> of the line items of the input
Positions ==
    UNION { {<<r, i>> : i \in 1..Len(Records[r].items)} : r \in 1..Len(Records) }

ItemAt(p) == Records[p[1]].items[p[2]]
SellerAt(p) == Records[p[1]].seller_id

\* the line item is behind the loops
Handled(p) == p[1] < ri \/ (p[1] = ri /\ p[2] < ii)

\* its seller and its product are known
Resolved(p) == SellerAt(p) \in SellerIdSet /\ KnownSku(ItemAt(p).sku)

ValidInput ==
    /\ \A r \in 1..Len(Records) : Records[r].seller_id \in SellerIdSet
    /\ \A p \in Positions : KnownSku(ItemAt(p).sku)

\* calculateRevenue(item, product) of the variant's default strategy
CalcRevenue(item) ==
    IF variant = "main" THEN MainSimpleRevenue(item) ELSE PartSimpleRevenue(item)

CalcProfit(item) ==
    CalcRevenue(item)
    - data.products[ProductIndex(data.products, item.sku)].purchase_price
        * item.quantity * 100

\* the resolved line items of seller id that are behind the loops
SoldBy(id) == {p \in Positions : Handled(p) /\ Resolved(p) /\ SellerAt(p) = id}
SoldSku(id, sku) == {p \in SoldBy(id) : ItemAt(p).sku = sku}

RevenueOf(S) == SumOver([p \in S |-> CalcRevenue(ItemAt(p))], S)
ProfitOf(S) == SumOver([p \in S |-> CalcProfit(ItemAt(p))], S)
QuantityOf(S) == SumOver([p \in S |-> ItemAt(p).quantity], S)

Aggregating == pc \in {"records", "items", "done"}
StatOf(id) == sellerStats[StatIndex(sellerStats, id)]
OutIndices == 1..Len(out)

(***************************************************************************)
(* C1.  For a valid input, the revenues of the returned sellers add up to  *)
(* the sum of calculateRevenue over all line items, up to the rounding of  *)
(* each seller's total (half a cent per seller); total_amount plays no     *)
(* part.                                                                   *)
(***************************************************************************)
RevenueIsSumOfItems ==
    Abs(100 * SumOver([k \in OutIndices |-> out[k].revenue], OutIndices)
        - RevenueOf(Positions)) <= 50 * Len(out)

\* C1: for every valid input, the sum of revenue over the returned sellers equals
\* the sum of calculateRevenue over all line items, within half a cent per seller
C1_RevenueIsSumOfItems == (pc = "done" /\ ValidInput) => RevenueIsSumOfItems

\* the same, of main.js alone
MainRevenueIsSumOfItems ==
    (variant = "main" /\ pc = "done" /\ ValidInput) => RevenueIsSumOfItems

(***************************************************************************)
(* C6.  A seller's sales_count is the number of units sold: the sum of     *)
(* quantity over the seller's resolved line items.                         *)
(***************************************************************************)
CountsUnits == \A k \in OutIndices : out[k].sales_count = QuantityOf(SoldBy(out[k].seller_id))

\* C6: a returned seller's sales_count is the sum of quantity over the seller's
\* resolved line items
C6_SalesCountIsUnits == pc = "done" => CountsUnits

\* the same, of main.js alone
MainSalesCountIsUnits == (variant = "main" /\ pc = "done") => CountsUnits

(***************************************************************************)
(* C2.  The returned array is sorted by profit, descending: no entry has   *)
(* a smaller profit than the entry after it.                               *)
(***************************************************************************)
\* C2: every returned entry has a profit no smaller than that of the entry after it
C2_SortedByProfit ==
    pc = "done" => \A k \in 1..(Len(out) - 1) : out[k].profit >= out[k + 1].profit

\* three or more sellers, a negative profit, a tie and a strict step, from
\* accumulators that were not in that order
C2_Witness ==
    /\ pc = "done"
    /\ Len(out) >= 3
    /\ \E k \in OutIndices : out[k].profit < 0
    /\ \E k \in 1..(Len(out) - 1) : out[k].profit = out[k + 1].profit /\ out[k].profit # 0
    /\ \E k \in 1..(Len(out) - 1) : out[k].profit > out[k + 1].profit
    /\ \E a, b \in 1..Len(sellerStats) : a < b /\ sellerStats[a].profit < sellerStats[b].profit

(***************************************************************************)
(* C3.  The returned array has one entry per distinct seller id of         *)
(* data.sellers: as many entries as distinct ids, each id in exactly one.  *)
(***************************************************************************)
\* C3: the returned array has as many entries as data.sellers has distinct ids,
\* and every id is in exactly one entry
C3_OneEntryPerSeller ==
    pc = "done" =>
        /\ Len(out) = Cardinality(SellerIdSet)
        /\ \A id \in SellerIdSet :
               Cardinality({k \in OutIndices : out[k].seller_id = id}) = 1

\* an id listed twice, several sellers, some with purchase records and some without
C3_Witness ==
    /\ pc = "done"
    /\ Len(data.sellers) > Cardinality(SellerIdSet)
    /\ Cardinality(SellerIdSet) >= 3
    /\ Len(Records) >= 2
    /\ \E id \in SellerIdSet : \A r \in 1..Len(Records) : Records[r].seller_id # id

(***************************************************************************)
(* C4.  top_products of every returned seller has at most 10 entries, in   *)
(* descending order of the revenue the seller accumulated per product, and *)
(* a product left out has no more revenue than any product kept (and is    *)
(* left out only when 10 are kept).                                        *)
(***************************************************************************)
TopByRevenue ==
    \A k \in OutIndices :
        LET id == out[k].seller_id
            top == out[k].top_products
            Rev(sku) == RevenueOf(SoldSku(id, sku))
            kept == {EntrySku(top[j]) : j \in 1..Len(top)}
            sold == {ItemAt(p).sku : p \in SoldBy(id)}
        IN  /\ Len(top) <= 10
            /\ kept \subseteq sold
            /\ \A j \in 1..(Len(top) - 1) :
                   Rev(EntrySku(top[j])) >= Rev(EntrySku(top[j + 1]))
            /\ \A sku \in sold \ kept :
                   Len(top) = 10 /\ \A x \in kept : Rev(x) >= Rev(sku)

\* C4: top_products has at most 10 entries, by accumulated revenue descending,
\* and keeps the products of the highest revenue
C4_TopProductsByRevenue == pc = "done" => TopByRevenue

\* the same, of main.js alone
MainTopProductsByRevenue == (variant = "main" /\ pc = "done") => TopByRevenue

\* main.js has cut the products of a seller down to 10, not all of one revenue
MainTopTenReached ==
    /\ variant = "main"
    /\ pc = "done"
    /\ \E k \in OutIndices :
           /\ Len(out[k].top_products) = 10
           /\ Len(StatOf(out[k].seller_id).products_sold) > 10
           /\ out[k].top_products[1].revenue > out[k].top_products[10].revenue

(***************************************************************************)
(* C5.  With the default strategies the bonus of the seller at 0-based     *)
(* rank i of total sellers is, rounded to cents, 15% of the seller's       *)
(* accumulated profit when i = 0, 10% when i is 1 or 2, nothing when       *)
(* i = total - 1 and i > 2, and 5% otherwise.                              *)
(***************************************************************************)
BonusPercent(i, total) ==
    CASE i = 0 -> 15
      [] i \in {1, 2} -> 10
      [] i > 2 /\ i = total - 1 -> 0
      [] OTHER -> 5

\* C5: the bonus at 0-based rank i is 15% of the profit for i = 0, 10% for i in
\* {1, 2}, 0 for the last rank when i > 2, 5% otherwise, rounded to cents
C5_BonusByRank ==
    pc = "done" =>
        \A k \in OutIndices :
            out[k].bonus =
                ToFixed2(StatOf(out[k].seller_id).profit * BonusPercent(k - 1, Len(out)),
                         10000)

\* five sellers or more: a 15%, a 10%, a 5% bonus that are not zero, and a last
\* seller with a profit and no bonus
C5_Witness ==
    /\ pc = "done"
    /\ Len(out) >= 5
    /\ out[1].bonus # 0
    /\ out[3].bonus # 0
    /\ out[4].bonus # 0
    /\ out[Len(out)].profit # 0
    /\ out[Len(out)].bonus = 0

\* exactly three sellers: the third, who is also the last, has 10% of a profit
ThreeSellersReached ==
    pc = "done" /\ Len(out) = 3 /\ out[3].bonus # 0 /\ 10 * out[3].bonus = out[3].profit

\* a single seller, who has 15% of a profit
SingleSellerReached ==
    pc = "done" /\ Len(out) = 1 /\ out[1].bonus # 0 /\ 100 * out[1].bonus = 15 * out[1].profit

(***************************************************************************)
(* C7.  A seller of data.sellers without any purchase record is returned   *)
(* with revenue 0, profit 0, sales_count 0, no top products and bonus 0,   *)
(* at whatever rank.                                                       *)
(***************************************************************************)
NoRecordOf(id) == \A r \in 1..Len(Records) : Records[r].seller_id # id

\* C7: a seller without purchase records is returned with revenue, profit,
\* sales_count and bonus 0 and with no top products
C7_IdleSellerIsZero ==
    pc = "done" =>
        \A id \in SellerIdSet :
            NoRecordOf(id) =>
                \E k \in OutIndices :
                    /\ out[k].seller_id = id
                    /\ out[k].revenue = 0
                    /\ out[k].profit = 0
                    /\ out[k].sales_count = 0
                    /\ out[k].top_products = <<>>
                    /\ out[k].bonus = 0

\* sellers without records at the first rank and at a later one, around and
\* ahead of sellers with a profit or a loss
C7_Witness ==
    /\ pc = "done"
    /\ Len(out) >= 4
    /\ out[1].profit > 0
    /\ NoRecordOf(out[2].seller_id)
    /\ out[Len(out)].profit < 0
    /\ \E id \in SellerIdSet : ~NoRecordOf(id)

(***************************************************************************)
(* C8.  Unknown references are skipped, never raised: a purchase record    *)
(* of an unknown seller and a line item of an unknown sku change no        *)
(* accumulator, the other items and records are aggregated, and no error   *)
(* ends the analysis.                                                      *)
(***************************************************************************)
LenientSkips ==
    /\ pc = "error" => Len(Records) = 0
    /\ Aggregating =>
           \A k \in 1..Len(sellerStats) :
               LET id == sellerStats[k].seller_id
               IN  /\ sellerStats[k].profit = ProfitOf(SoldBy(id))
                   /\ {EntrySku(sellerStats[k].products_sold[j]) :
                          j \in 1..Len(sellerStats[k].products_sold)}
                      = {ItemAt(p).sku : p \in SoldBy(id)}

\* C8: unknown sellers and unknown skus raise no error and change no accumulator;
\* everything else is aggregated
C8_LenientSkips == LenientSkips

\* the same, of main.js alone
MainLenientSkips == variant = "main" => LenientSkips

\* main.js is past an unknown seller and an unknown sku, and has aggregated since
MainSkipsReached ==
    /\ variant = "main"
    /\ pc = "done"
    /\ \E p \in Positions : ~KnownSku(ItemAt(p).sku) /\ SellerAt(p) \in SellerIdSet
    /\ \E k \in OutIndices : out[k].sales_count > 0

(***************************************************************************)
(* C10.  While and after the records are aggregated, a seller's product    *)
(* map has an entry for a sku exactly when a resolved line item of the     *)
(* seller with that sku is behind the loops, and the entry's quantity and  *)
(* revenue are the sums over those line items.                             *)
(***************************************************************************)
ProductMapExact ==
    Aggregating =>
        \A k \in 1..Len(sellerStats) :
            LET id == sellerStats[k].seller_id
                sold == sellerStats[k].products_sold
                skus == {ItemAt(p).sku : p \in Positions}
                        \cup {EntrySku(sold[j]) : j \in 1..Len(sold)}
            IN  \A sku \in skus :
                    LET e == EntryIndex(sold, sku)
                        S == SoldSku(id, sku)
                    IN  /\ e # 0 <=> S # {}
                        /\ e # 0 =>
                              /\ sold[e].quantity = QuantityOf(S)
                              /\ "revenue" \in DOMAIN sold[e]
                              /\ sold[e].revenue = RevenueOf(S)

\* C10: a seller's product map has an entry for exactly the skus of the seller's
\* resolved line items so far, with their summed quantity and revenue
C10_ProductMapExact == ProductMapExact

\* the same, of main.js alone
MainProductMapExact == variant = "main" => ProductMapExact

(***************************************************************************)
(* C9.  The step of one line item changes the accumulator of the seller    *)
(* of its record and no other: at every point of the aggregation a         *)
(* seller's accumulator is what the seller's own records and line items    *)
(* so far make of it, whatever was aggregated for other sellers in         *)
(* between.  Hence what is returned for a seller, but for the bonus of     *)
(* its rank, is what the analysis of that seller's records alone returns.  *)
(***************************************************************************)
\* (each intermediate accumulator is bound as a value before the recursion goes on)
RECURSIVE AloneItems(_, _, _)
AloneItems(stat, items, i) ==
    IF i > Len(items) THEN stat
    ELSE LET p == ProductIndex(data.products, items[i].sku)
             step == IF p = 0 THEN stat
                     ELSE IF variant = "main"
                          THEN MainItemStep(stat, items[i], data.products[p])
                          ELSE PartItemStep(stat, items[i], data.products[p])
         IN  CHOOSE result \in {AloneItems(next, items, i + 1) : next \in {step}} : TRUE

AloneHead(stat, rec) == IF variant = "main" THEN stat ELSE PartRecordStep(stat, rec)

RECURSIVE AloneRecords(_, _)
AloneRecords(stat, recs) ==
    IF recs = <<>> THEN stat
    ELSE CHOOSE result \in
             {AloneRecords(next, Tail(recs)) :
                 next \in {AloneItems(AloneHead(stat, Head(recs)), Head(recs).items, 1)}} :
             TRUE

\* the accumulator of seller id when only the records of id are aggregated, as
\* far as the loops are
AlonePrefix(id) ==
    LET past == AloneRecords(NewStat(id),
                             SelectSeq(SubSeq(Records, 1, ri - 1),
                                       LAMBDA r : r.seller_id = id))
    IN  IF pc = "items" /\ CurRecord.seller_id = id
        THEN AloneItems(AloneHead(past, CurRecord), SubSeq(CurRecord.items, 1, ii - 1), 1)
        ELSE past

\* the entry returned for seller id when only the records of id are analysed
OutputAlone(id) ==
    CHOOSE entry \in
        {(IF variant = "main" THEN MainRank(<<stat>>) ELSE PartRank(<<stat>>))[1] :
            stat \in {AloneRecords(NewStat(id),
                                   SelectSeq(Records, LAMBDA r : r.seller_id = id))}} :
        TRUE

OwnPrefixOnly ==
    Aggregating =>
        \A k \in 1..Len(sellerStats) :
            sellerStats[k] = AlonePrefix(sellerStats[k].seller_id)

OwnRecordsOnly ==
    pc = "done" =>
        \A k \in OutIndices :
            \A alone \in {OutputAlone(out[k].seller_id)} :
                /\ out[k].revenue = alone.revenue
                /\ out[k].profit = alone.profit
                /\ out[k].sales_count = alone.sales_count
                /\ out[k].top_products = alone.top_products

\* C9: a seller's accumulator is changed by the line items of the seller's own
\* records only, and a seller's returned figures are those of its own records alone
C9_OnlyOwnAccumulator == OwnPrefixOnly /\ OwnRecordsOnly

\* two sellers, each with a line item of its own aggregated
C9_Witness ==
    /\ pc = "done"
    /\ Len(sellerStats) >= 2
    /\ \A k \in 1..Len(sellerStats) : sellerStats[k].profit # 0
    /\ \E a, b \in 1..Len(sellerStats) : sellerStats[a].profit # sellerStats[b].profit

\* the same as a property of the step: the step of a line item leaves the
\* accumulators of all other sellers as they are
ItemStepFrame ==
    (pc = "items" /\ ii <= Len(CurRecord.items)) =>
        /\ Len(sellerStats') = Len(sellerStats)
        /\ \A k \in 1..Len(sellerStats) :
               sellerStats[k].seller_id # CurRecord.seller_id =>
                   sellerStats'[k] = sellerStats[k]

ItemStepChangesOwnOnly == [][ItemStepFrame]_vars

====
